---------------------------- MODULE Spec2Model ----------------------------
(***************************************************************************)
(* Model of utils/metrics_utils.py: the ranking metrics apk / mapk and the *)
(* Gini metrics ginic / gini_normalizedc.                                  *)
(*                                                                         *)
(* Every function is pure.  One call is one action: it draws the arguments *)
(* from bounded sets, runs the function as the source computes it and      *)
(* records the arguments and the outcome.  Floating-point values are       *)
(* modelled as exact rationals extended with the IEEE specials nan and     *)
(* +/-inf; an exception is an outcome whose kind is the exception's name.  *)
(***************************************************************************)
EXTENDS Integers, Sequences, FiniteSets

VARIABLES fn, actual, predicted, pred, k, result

vars == <<fn, actual, predicted, pred, k, result>>

(***************************************************************************)
(* Bounds of the model.                                                    *)
(***************************************************************************)
MaxId == 2        \* apk: item identifiers are 1..MaxId
MaxLen == 3       \* apk: longest actual / predicted list
MaxK == 4         \* apk: k ranges over -1..MaxK

Ids == 1..MaxId
Ks == (-1)..MaxK

SeqsUpTo(S, n) == UNION {[1..m -> S] : m \in 0..n}

(***************************************************************************)
(* Numbers.  A float is a record [kind, n, d]:                             *)
(*   kind = "num" : the rational n/d in lowest terms, d > 0                *)
(*   kind = "inf" : n = 1 for +inf, n = -1 for -inf                        *)
(*   kind = "nan"                                                          *)
(* and an outcome may also be an exception, kind = its Python name.        *)
(***************************************************************************)
Abs(x) == IF x < 0 THEN -x ELSE x
Sign(x) == IF x < 0 THEN -1 ELSE IF x > 0 THEN 1 ELSE 0
Min(a, b) == IF a <= b THEN a ELSE b
Max(a, b) == IF a >= b THEN a ELSE b

RECURSIVE GCD(_, _)
GCD(a, b) == IF b = 0 THEN a ELSE GCD(b, a % b)

Num(n, d) ==
    LET g == GCD(Abs(n), Abs(d))
        s == IF d < 0 THEN -1 ELSE 1
    IN  [kind |-> "num", n |-> s * (n \div g), d |-> s * (d \div g)]
NaN == [kind |-> "nan", n |-> 0, d |-> 0]
Inf(s) == [kind |-> "inf", n |-> s, d |-> 0]
Raise(name) == [kind |-> name, n |-> 0, d |-> 0]
IsError(x) == x.kind \notin {"num", "inf", "nan"}

FAdd(x, y) == Num(x.n * y.d + y.n * x.d, x.d * y.d)

(***************************************************************************)
(* apk                                                                     *)
(***************************************************************************)
Range(s) == {s[i] : i \in DOMAIN s}

\* Python's s[:n]: a negative n counts from the end.
Slice(s, n) ==
    IF n >= 0 THEN SubSeq(s, 1, Min(n, Len(s)))
    ELSE SubSeq(s, 1, Max(Len(s) + n, 0))

\* A truncation that keeps the whole list.
TruncateKeepAll(p, kk) == p

\* if len(predicted) > k: predicted = predicted[:k]
Truncate(p, kk) == IF Len(p) > kk THEN Slice(p, kk) ELSE p

\* The hit test without the "not in predicted[:ind]" conjunct.
IsHitNoDedup(act, p, ind) == p[ind + 1] \in Range(act)

\* pred in actual and pred not in predicted[:ind]   (ind is 0-indexed)
IsHit(act, p, ind) ==
    /\ p[ind + 1] \in Range(act)
    /\ p[ind + 1] \notin Range(Slice(p, ind))

\* The for loop, from index ind on, with the accumulators so far.
RECURSIVE ApkLoop(_, _, _, _, _)
ApkLoop(act, p, ind, num_hits, score) ==
    IF ind >= Len(p) THEN score
    ELSE IF IsHit(act, p, ind)
         THEN ApkLoop(act, p, ind + 1, num_hits + 1,
                      FAdd(score, Num(num_hits + 1, ind + 1)))
         ELSE ApkLoop(act, p, ind + 1, num_hits, score)

\* score / min(len(actual), k), Python float division
ApkDivide(score, m) ==
    IF m = 0 THEN Raise("ZeroDivisionError") ELSE Num(score.n, score.d * m)

\* apk without the "if not actual" guard.
apkNoGuard(act, p, kk) ==
    ApkDivide(ApkLoop(act, Truncate(p, kk), 0, 0, Num(0, 1)), Min(Len(act), kk))

apk(act, p, kk) ==
    LET trunc == Truncate(p, kk)
        score == ApkLoop(act, trunc, 0, 0, Num(0, 1))
    IN  IF act = <<>> THEN Num(0, 1)
        ELSE ApkDivide(score, Min(Len(act), kk))

Init ==
    /\ fn = "none"
    /\ actual = <<>>
    /\ predicted = <<>>
    /\ pred = [ndim |-> 1, data |-> <<>>]
    /\ k = 0
    /\ result = Num(0, 1)

CallApk ==
    /\ fn = "none"
    /\ \E act \in SeqsUpTo(Ids, MaxLen), p \in SeqsUpTo(Ids, MaxLen), kk \in Ks :
          /\ fn' = "apk"
          /\ actual' = act
          /\ predicted' = p
          /\ k' = kk
          /\ result' = apk(act, p, kk)
    /\ UNCHANGED pred

NextApk == CallApk

SpecApk == Init /\ [][NextApk]_vars

(***************************************************************************)
(* Claims about apk.                                                       *)
(***************************************************************************)
\* The positions (1-indexed) of the first min(len(predicted), k) entries of
\* predicted that are members of actual and occur at no earlier position.
HitPositions ==
    {i \in 1..Min(Len(predicted), k) :
        /\ \E j \in 1..Len(actual) : actual[j] = predicted[i]
        /\ \A j \in 1..(i - 1) : predicted[j] # predicted[i]}

\* The hit at position i is the HitRank(i)-th hit.
HitRank(i) == Cardinality({j \in HitPositions : j <= i})

RECURSIVE SumPrecisions(_)
SumPrecisions(H) ==
    IF H = {} THEN Num(0, 1)
    ELSE LET i == CHOOSE x \in H : TRUE
         IN  FAdd(Num(HitRank(i), i), SumPrecisions(H \ {i}))

\* C1: for non-empty actual and k >= 1, apk returns S / min(|actual|, k),
\* where S adds numHits/(i+1) at each position of the first
\* min(len(predicted), k) entries that is a first occurrence of a member of
\* actual; duplicates count once and a short list is not padded.
C1_ApkFormula ==
    (fn = "apk" /\ actual # <<>> /\ k >= 1) =>
        LET S == SumPrecisions(HitPositions)
        IN  result = Num(S.n, S.d * Min(Len(actual), k))

\* A call with a repeated relevant entry, more than one hit and a predicted
\* list shorter than k.
C1_Witness ==
    /\ fn = "apk" /\ actual # <<>> /\ k >= 1
    /\ Cardinality(HitPositions) >= 2
    /\ \E i, j \in 1..Min(Len(predicted), k) :
          i < j /\ predicted[i] = predicted[j] /\ predicted[i] \in Range(actual)
    /\ Len(predicted) < k

\* C2: with an empty actual, apk returns 0.0 for every predicted list and
\* every k, never an error.
C2_EmptyActualZero ==
    (fn = "apk" /\ actual = <<>>) => result = Num(0, 1)

C2_Witness ==
    fn = "apk" /\ actual = <<>> /\ predicted # <<>> /\ k = 0 /\ result = Num(0, 1)

\* The first min(|actual|, k) entries of predicted exist and are pairwise
\* distinct members of an actual without duplicates.
PerfectPrefix ==
    LET m == Min(Len(actual), k)
    IN  /\ Len(predicted) >= m
        /\ \A i, j \in 1..Len(actual) : i # j => actual[i] # actual[j]
        /\ \A i \in 1..m : predicted[i] \in Range(actual)
        /\ \A i, j \in 1..m : i # j => predicted[i] # predicted[j]

InUnitInterval(x) == x.kind = "num" /\ 0 <= x.n /\ x.n <= x.d

\* C10 as stated: for every actual and k >= 1 the value is in [0, 1], and it
\* is 1 whenever the first min(|actual|, k) entries are pairwise distinct
\* members of a duplicate-free actual.
C10_Original ==
    (fn = "apk" /\ k >= 1) =>
        /\ InUnitInterval(result)
        /\ PerfectPrefix => result = Num(1, 1)

\* C10 amended: for every actual and k >= 1 the value is in [0, 1], and for
\* a non-empty actual it is 1 whenever the first min(|actual|, k) entries
\* are pairwise distinct members of a duplicate-free actual.
C10_Amended ==
    (fn = "apk" /\ k >= 1) =>
        /\ InUnitInterval(result)
        /\ (actual # <<>> /\ PerfectPrefix) => result = Num(1, 1)

C10_Witness ==
    /\ fn = "apk" /\ k >= 1 /\ actual # <<>> /\ PerfectPrefix
    /\ Len(predicted) > Min(Len(actual), k)
    /\ result = Num(1, 1)

(***************************************************************************)
(* mapk                                                                    *)
(***************************************************************************)
MaxQueries == 2   \* mapk: longest list of queries
MapMaxLen == 2    \* mapk: longest per-query list
MapMaxK == 2      \* mapk: k ranges over 0..MapMaxK

\* mapk only forwards each pair of lists to apk, whose dependence on the
\* identifiers is covered by SpecApk; one identifier is enough here to make
\* the per-query scores differ (0, 1/2, 1, ...).
MapIds == {1}

MapLists == SeqsUpTo(SeqsUpTo(MapIds, MapMaxLen), MaxQueries)

\* A zip that pairs the i-th actual with the i-th predicted from the end.
ZipCrossed(acts, preds) ==
    LET n == Min(Len(acts), Len(preds))
    IN  [i \in 1..n |-> <<acts[i], preds[n + 1 - i]>>]

\* zip(actual, predicted): stops at the shorter of the two.
Zip(acts, preds) ==
    [i \in 1..Min(Len(acts), Len(preds)) |-> <<acts[i], preds[i]>>]

RECURSIVE SumSeq(_)
SumSeq(xs) ==
    IF xs = <<>> THEN Num(0, 1) ELSE FAdd(xs[1], SumSeq(Tail(xs)))

\* np.mean of a list of floats; the mean of an empty list is nan (numpy
\* warns, it does not raise).
NpMean(xs) ==
    IF xs = <<>> THEN NaN
    ELSE LET s == SumSeq(xs) IN Num(s.n, s.d * Len(xs))

\* [apk(act, pred, k) for act, pred in zip(actual, predicted)]
ApkList(acts, preds, kk) ==
    LET z == Zip(acts, preds)
    IN  [i \in DOMAIN z |-> apk(z[i][1], z[i][2], kk)]

\* An exception raised inside the comprehension propagates (the first one);
\* otherwise the scores are averaged.
MeanOrRaise(scores) ==
    LET failed == {i \in DOMAIN scores : IsError(scores[i])}
    IN  IF failed # {}
        THEN scores[CHOOSE i \in failed : \A j \in failed : i <= j]
        ELSE NpMean(scores)

mapk(acts, preds, kk) == MeanOrRaise(ApkList(acts, preds, kk))

CallMapk ==
    /\ fn = "none"
    /\ \E acts \in MapLists, preds \in MapLists, kk \in 0..MapMaxK :
          /\ fn' = "mapk"
          /\ actual' = acts
          /\ predicted' = preds
          /\ k' = kk
          /\ result' = mapk(acts, preds, kk)
    /\ UNCHANGED pred

NextMapk == CallMapk

SpecMapk == Init /\ [][NextMapk]_vars

(***************************************************************************)
(* Claims about mapk.                                                      *)
(***************************************************************************)
RECURSIVE SumApk(_)
SumApk(I) ==
    IF I = {} THEN Num(0, 1)
    ELSE LET i == CHOOSE x \in I : TRUE
         IN  FAdd(apk(actual[i], predicted[i], k), SumApk(I \ {i}))

\* C3: for non-empty lists of equal length n and k >= 1, mapk is the sum of
\* apk(actualLists[i], predictedLists[i], k) over all i, divided by n.
C3_MapkIsMean ==
    (fn = "mapk" /\ Len(actual) = Len(predicted) /\ Len(actual) >= 1 /\ k >= 1) =>
        LET total == SumApk(1..Len(actual))
        IN  result = Num(total.n, total.d * Len(actual))

\* Two queries whose apk values differ, averaged to 1/2.
C3_Witness ==
    /\ fn = "mapk" /\ Len(actual) = 2 /\ Len(predicted) = 2 /\ k >= 1
    /\ apk(actual[1], predicted[1], k) # apk(actual[2], predicted[2], k)
    /\ result = Num(1, 2)

\* C6: with lists of different lengths mapk raises an error; it never
\* returns a score computed from the pairs that line up.
C6_MismatchRaises ==
    (fn = "mapk" /\ k >= 1 /\ Len(actual) # Len(predicted)) => IsError(result)

\* C8: with no query pairs mapk raises an error; it returns no value, be it
\* a default number or nan.
C8_EmptyRaises ==
    (fn = "mapk" /\ k >= 1 /\ actual = <<>> /\ predicted = <<>>) => IsError(result)

(***************************************************************************)
(* ginic / gini_normalizedc                                                *)
(***************************************************************************)
GiniMaxLen == 3   \* Gini: longest actual / pred array
MaxVal == 1       \* Gini: actual values are -1..MaxVal
MaxScore == 1     \* Gini: predicted scores are 0..MaxScore

ActualVals == (-1)..MaxVal
Scores == 0..MaxScore

\* A numpy array: its number of dimensions and its rows.  A 2-D pred is a
\* probability matrix, one row <<p0, p1>> per item.
Array1(data) == [ndim |-> 1, data |-> data]
Array2(data) == [ndim |-> 2, data |-> data]

\* IEEE division as numpy performs it: a zero divisor gives inf or nan (with
\* a warning), never an exception.  The sign of a zero is not modelled.
FDiv(x, y) ==
    IF x.kind = "nan" \/ y.kind = "nan" THEN NaN
    ELSE IF x.kind = "inf"
         THEN IF y.kind = "inf" THEN NaN
              ELSE Inf(IF y.n < 0 THEN -x.n ELSE x.n)
    ELSE IF y.kind = "inf" THEN Num(0, 1)
    ELSE IF y.n = 0
         THEN IF x.n = 0 THEN NaN ELSE Inf(Sign(x.n))
    ELSE Num(x.n * y.d, x.d * y.n)

\* x - y for a finite y
FSub(x, y) ==
    IF x.kind = "num" THEN Num(x.n * y.d - y.n * x.d, x.d * y.d) ELSE x

RECURSIVE Sum(_)
Sum(xs) == IF xs = <<>> THEN 0 ELSE xs[1] + Sum(Tail(xs))

\* a_s.cumsum()
CumSum(xs) == [i \in DOMAIN xs |-> Sum(SubSeq(xs, 1, i))]

\* Every order of the index set I.
RECURSIVE AllOrders(_)
AllOrders(I) ==
    IF I = {} THEN {<<>>}
    ELSE UNION {{<<i>> \o rest : rest \in AllOrders(I \ {i})} : i \in I}

\* Index orders that sort in descending order.
RECURSIVE DescendingFrom(_, _)
DescendingFrom(p, I) ==
    IF I = {} THEN {<<>>}
    ELSE UNION {{<<i>> \o rest : rest \in DescendingFrom(p, I \ {i})} :
                   i \in {j \in I : \A m \in I : p[j] >= p[m]}}

ArgSortsDescending(p) == DescendingFrom(p, DOMAIN p)

\* Index orders that do not sort at all.
ArgSortsUnsorted(p) == AllOrders(DOMAIN p)

\* The index orders that sort the entries of p at the indices I ascending:
\* any index of a smallest entry comes first.
RECURSIVE AscendingFrom(_, _)
AscendingFrom(p, I) ==
    IF I = {} THEN {<<>>}
    ELSE UNION {{<<i>> \o rest : rest \in AscendingFrom(p, I \ {i})} :
                   i \in {j \in I : \A m \in I : p[j] <= p[m]}}

\* np.argsort(pred), default kind (quicksort, not stable): an index order
\* that sorts pred ascending; the order among equal scores is whatever the
\* sort leaves, so every ascending order is a possible outcome.
ArgSorts(p) == AscendingFrom(p, DOMAIN p)

\* ginic, given the index order that argsort returned for pred.
ginic(act, p, order) ==
    LET n == Len(act)
    IN  IF \E i \in DOMAIN order : order[i] > n
        THEN Raise("IndexError")
        ELSE LET a_s == [i \in DOMAIN order |-> act[order[i]]]
                 a_c == CumSum(a_s)
                 ratio == FDiv(Num(Sum(a_c), 1), Num(Sum(a_s), 1))
                 giniSum == FSub(ratio, Num(n + 1, 2))
             IN  FDiv(giniSum, Num(n, 1))

\* pred[:, 1] when pred.ndim == 2
PositiveClass(pr) ==
    IF pr.ndim = 2 THEN [i \in DOMAIN pr.data |-> pr.data[i][2]] ELSE pr.data

\* The possible values of ginic(actual, pred), one per outcome of argsort.
GinicOutcomes(act, p) == {ginic(act, p, order) : order \in ArgSorts(p)}

\* A normalisation that returns the raw Gini, not divided by the maximum.
NormalizeSkipped(g, gmax) == g

\* ginic(actual, pred) / ginic(actual, actual); an exception raised by the
\* first call propagates (the second call cannot raise).
Normalize(g, gmax) == IF IsError(g) THEN g ELSE FDiv(g, gmax)

\* The possible values of gini_normalizedc(actual, pred), one per pair of
\* outcomes of its two argsort calls.
gini_normalizedc(act, pr) ==
    {Normalize(g, gmax) : g \in GinicOutcomes(act, PositiveClass(pr)),
                          gmax \in GinicOutcomes(act, act)}

ActualArrays == SeqsUpTo(ActualVals, GiniMaxLen)
ScoreArrays == SeqsUpTo(Scores, GiniMaxLen)
ProbaRows == {<<MaxScore - s, s>> : s \in Scores}
ProbaArrays == SeqsUpTo(ProbaRows, GiniMaxLen)

CallGinic ==
    /\ fn = "none"
    /\ \E act \in ActualArrays, p \in ScoreArrays :
          /\ fn' = "ginic"
          /\ actual' = act
          /\ pred' = Array1(p)
          /\ result' \in GinicOutcomes(act, p)
    /\ UNCHANGED <<predicted, k>>

CallGiniNormalizedc ==
    /\ fn = "none"
    /\ \E act \in ActualArrays :
       \E pr \in {Array1(p) : p \in ScoreArrays \cup {act}}
                 \cup {Array2(p) : p \in ProbaArrays} :
          /\ fn' = "gini_normalizedc"
          /\ actual' = act
          /\ pred' = pr
          /\ result' \in gini_normalizedc(act, pr)
    /\ UNCHANGED <<predicted, k>>

NextGini == CallGinic \/ CallGiniNormalizedc

SpecGini == Init /\ [][NextGini]_vars

(***************************************************************************)
(* Claims about ginic / gini_normalizedc.                                  *)
(***************************************************************************)
IsConstant(xs) == \A i, j \in DOMAIN xs : xs[i] = xs[j]

\* The permutations of the positions of pred that put the scores in
\* ascending order.
AscendingOrders(p) ==
    {o \in AllOrders(DOMAIN p) : \A i \in 1..(Len(p) - 1) : p[o[i]] <= p[o[i + 1]]}

\* Sum of the running cumulative sums of actual taken in the order o: the
\* i-th reordered value occurs in the cumulative sums i, i+1, ..., n.
RECURSIVE WeightedSum(_, _, _)
WeightedSum(act, o, i) ==
    IF i > Len(o) THEN 0
    ELSE (Len(o) - i + 1) * act[o[i]] + WeightedSum(act, o, i + 1)

RECURSIVE Total(_, _)
Total(act, i) == IF i > Len(act) THEN 0 ELSE act[i] + Total(act, i + 1)

\* ((W / S) - (n + 1) / 2) / n  =  (2 W - (n + 1) S) / (2 S n)
GiniValue(act, o) ==
    LET n == Len(act)
        W == WeightedSum(act, o, 1)
        S == Total(act, 1)
    IN  Num(2 * W - (n + 1) * S, 2 * S * n)

\* C4 as stated: for every non-constant a, gini_normalizedc(a, a) is 1.0.
C4_Original ==
    (fn = "gini_normalizedc" /\ pred = Array1(actual) /\ ~IsConstant(actual)) =>
        result = Num(1, 1)

\* C4 amended: for every non-constant a whose sum is not zero,
\* gini_normalizedc(a, a) is 1.0.
C4_Amended ==
    (/\ fn = "gini_normalizedc" /\ pred = Array1(actual)
     /\ ~IsConstant(actual) /\ Total(actual, 1) # 0) =>
        result = Num(1, 1)

\* Self-ranking of a non-constant sequence with a negative entry and a
\* non-zero sum.
C4_Witness ==
    /\ fn = "gini_normalizedc" /\ pred = Array1(actual)
    /\ ~IsConstant(actual) /\ Total(actual, 1) # 0
    /\ \E i \in DOMAIN actual : actual[i] < 0
    /\ result = Num(1, 1)

\* C5: for equal lengths n >= 1 and a non-zero sum of actual, ginic is
\* ((sum of the cumulative sums of actual reordered by ascending pred) /
\* (sum of actual) - (n + 1) / 2) / n.
C5_GinicFormula ==
    (/\ fn = "ginic" /\ Len(actual) = Len(pred.data)
     /\ Len(actual) >= 1 /\ Total(actual, 1) # 0) =>
        \E o \in AscendingOrders(pred.data) : result = GiniValue(actual, o)

\* A call where ascending and descending order give different values.
C5_Witness ==
    /\ fn = "ginic" /\ Len(actual) = Len(pred.data)
    /\ Len(actual) >= 2 /\ Total(actual, 1) # 0
    /\ ~IsConstant(pred.data) /\ ~IsConstant(actual)
    /\ result.kind = "num" /\ result.n # 0

\* C7: with actual and pred of different lengths, pred shorter or longer,
\* the Gini computation raises an error and returns no number.
C7_MismatchRaises ==
    (fn \in {"ginic", "gini_normalizedc"} /\ Len(actual) # Len(pred.data)) =>
        IsError(result)

\* The actual values at positions with equal predicted scores are equal.
TiesAgree ==
    \A i, j \in DOMAIN pred.data :
        (i \in DOMAIN actual /\ j \in DOMAIN actual
         /\ PositiveClass(pred)[i] = PositiveClass(pred)[j]) => actual[i] = actual[j]

\* The outcome is the one every ascending order of the tied positions gives.
SameForEveryTieOrder ==
    /\ fn = "ginic" =>
          \A o \in AscendingOrders(pred.data) :
              result = ginic(actual, pred.data, o)
    /\ fn = "gini_normalizedc" =>
          \A g \in {ginic(actual, PositiveClass(pred), o) :
                        o \in AscendingOrders(PositiveClass(pred))},
             gmax \in {ginic(actual, actual, o) : o \in AscendingOrders(actual)} :
              result = (IF IsError(g) THEN g ELSE FDiv(g, gmax))

\* C9 as stated: for equal lengths the Gini value is the same whichever
\* order the sort gives the tied positions, even when the actual values at
\* the tied positions differ.
C9_Original ==
    (fn \in {"ginic", "gini_normalizedc"} /\ Len(actual) = Len(pred.data)) =>
        SameForEveryTieOrder

\* C9 amended: for equal lengths the Gini value is the same whichever order
\* the sort gives the tied positions, provided the actual values at tied
\* positions are equal.
C9_Amended ==
    (/\ fn \in {"ginic", "gini_normalizedc"} /\ Len(actual) = Len(pred.data)
     /\ TiesAgree) =>
        SameForEveryTieOrder

\* Tied scores at two positions with equal actual values there, in a
\* sequence that is not constant, and a finite non-zero value.
C9_Witness ==
    /\ fn = "ginic" /\ Len(actual) = Len(pred.data) /\ TiesAgree
    /\ \E i, j \in DOMAIN pred.data : i # j /\ pred.data[i] = pred.data[j]
    /\ ~IsConstant(actual)
    /\ result.kind = "num" /\ result.n # 0

====
